---------------------------- MODULE Spec2Model ----------------------------
(***************************************************************************)
(* Model of the ML-TIKET Python worker (apps/python-worker/main.py):       *)
(*   - the header normalizer            (_normalize_headers)               *)
(*   - the sheet cleaner                (_clean_sheet_dataframe)           *)
(*   - the preview loader, per sheet    (_load_excel), and the loader of   *)
(*     whole frames                     (_load_sheet_frames)               *)
(*   - the navigation builder           (_build_navigation)                *)
(*   - the outlier capping of the ML profile (ml_pipeline.py, _iqr_cap)    *)
(*   - the request serialization queue  (ExcelProcessingQueue) and the     *)
(*     three endpoints that parse workbooks.                               *)
(*                                                                         *)
(* Text is a sequence of one-character strings, so that strip(), the       *)
(* "col_{i}" fallback and the "__{n}" suffix are computed, not assumed.    *)
(***************************************************************************)
EXTENDS Integers, Sequences, FiniteSets, TLC

VARIABLES
    \* ---- header normalizer
    hdrIn,      \* the raw labels handed to _normalize_headers
    hdrOut,     \* its return value
    hdrPc,      \* "input" before the call, "done" after
    \* ---- sheet cleaner
    tbl,        \* the frame handed to _clean_sheet_dataframe
    minCov,     \* min_column_coverage, a rational [num, den]
    minSig,     \* min_row_signal, a rational [num, den]
    clean1,     \* result of cleaning tbl
    clean2,     \* result of cleaning clean1.frame again
    cleanPc,    \* "input", "cleaned", "recleaned"
    \* ---- preview loader
    file,       \* file_bytes: empty, not a workbook, or a workbook's sheets
    sheetFilter,\* sheet_names; the empty sequence is "no filter" (None or [])
    sampleRows, \* sample_rows
    maxRows,    \* max_rows_per_sheet
    loadOut,    \* what _load_excel returned or raised
    loadPc,     \* "input" before the call, "done" after
    framesOut,  \* what _load_sheet_frames returned or raised
    framesPc,   \* "input" before that call, "done" after
    \* ---- navigation builder
    navSheets,  \* the sheets handed to _build_navigation, in order
    navRequested,\* requested_sheet: a name, the empty text or None
    navOut,     \* the SheetCursor returned, or None
    navPc,      \* "input" before the call, "done" after
    \* ---- outlier capping
    capIn,      \* a numeric column after pd.to_numeric(errors="coerce")
    capOut,     \* the column's entry of the summary of _iqr_cap
    capPc,      \* "input" before the call, "done" after
    \* ---- endpoints and ExcelProcessingQueue
    ep,         \* per request: the endpoint it came to
    hpc,        \* per request: where its handler task stands
    fut,        \* per request: the future that enqueue created for it
    outcome,    \* per request: how its queued job ended
    job,        \* per request: where its queued job stands
    order,      \* the requests in the order enqueue pushed them
    queue,      \* the items of self._queue
    getters,    \* the worker tasks suspended in self._queue.get()
    started,    \* self._worker_started
    wpc,        \* per worker task: where it stands
    cur,        \* per worker task: the job it awaits
    ready,      \* the event loop's callbacks, in call_soon order
    loopBusy    \* the request whose handler holds the loop's thread in
                \* _load_sheet_frames, or 0

hvars == <<hdrIn, hdrOut, hdrPc>>
cvars == <<tbl, minCov, minSig, clean1, clean2, cleanPc>>
lvars == <<file, sheetFilter, sampleRows, maxRows, loadOut, loadPc,
           framesOut, framesPc>>
qvars == <<ep, hpc, fut, outcome, job, order, queue, getters, started, wpc,
           cur, ready, loopBusy>>
nvars == <<navSheets, navRequested, navOut, navPc>>
ivars == <<capIn, capOut, capPc>>
vars  == <<hvars, cvars, lvars, nvars, ivars, qvars>>

-----------------------------------------------------------------------------
(* Bounds of the model *)

\* longest list of raw labels given to the header normalizer
MaxLabels == 3
\* largest number of cells (rows * columns) of an input frame
MaxCells == 6
\* largest number of cells of the sheet of a one-sheet workbook, and of the
\* two sheets of a two-sheet workbook together
MaxSheetCells == 6
MaxPairCells == 3
\* largest max_rows_per_sheet and sample_rows given to the loader
MaxCap == 2
MaxSample == 3
\* longest list of sheets given to the navigation builder
MaxSheets == 3
\* longest numeric column given to the outlier capping
MaxSeries == 5
\* number of requests that reach the service
MaxRequests == 3

-----------------------------------------------------------------------------
(* Text *)

\* Python's None (a column label that is absent) and pandas' missing cell
None == <<"<None>">>
NA   == <<"<NA>">>

IsSpace(c) == c = " "

RECURSIVE LStrip(_)
LStrip(s) ==
    IF s # <<>> /\ IsSpace(Head(s)) THEN LStrip(Tail(s)) ELSE s

RECURSIVE RStrip(_)
RStrip(s) ==
    IF s # <<>> /\ IsSpace(s[Len(s)]) THEN RStrip(SubSeq(s, 1, Len(s) - 1)) ELSE s

\* str.strip()
Strip(s) == RStrip(LStrip(s))

Digit == <<"0", "1", "2", "3", "4", "5", "6", "7", "8", "9">>

\* str(n) for a natural number n
RECURSIVE IntStr(_)
IntStr(n) ==
    IF n < 10 THEN <<Digit[n + 1]>>
    ELSE IntStr(n \div 10) \o <<Digit[(n % 10) + 1]>>

-----------------------------------------------------------------------------
(* _normalize_headers *)

\* dict.get(key, 0) on a dict modelled as a function
SeenGet(seen, label) == IF label \in DOMAIN seen THEN seen[label] ELSE 0

\* seen[label] = value
SeenPut(seen, label, value) ==
    [l \in (DOMAIN seen) \cup {label} |-> IF l = label THEN value ELSE seen[l]]

\* SuffixedLabel without the "if count" test: the first occurrence is
\* suffixed too
SuffixedLabelAlways(label, count) == label \o <<"_", "_">> \o IntStr(count)

\* a label that repeats takes the suffix "__{count}" -- every time with the
\* count of the base label, which the loop never advances
SuffixedLabel(label, count) ==
    IF count # 0 THEN label \o <<"_", "_">> \o IntStr(count) ELSE label

\* the body of the for loop, from position idx (1-based here, 0-based there)
RECURSIVE NormalizeFrom(_, _, _, _)
NormalizeFrom(columns, idx, normalized, seen) ==
    IF idx > Len(columns) THEN normalized
    ELSE
        LET column   == columns[idx]
            stripped == IF column # None THEN Strip(column) ELSE <<>>
            \* f"col_{idx + 1}" with the 0-based idx is "col_" + this 1-based idx
            base     == IF stripped = <<>>
                        THEN <<"c", "o", "l", "_">> \o IntStr(idx)
                        ELSE stripped
            count    == SeenGet(seen, base)
            label    == SuffixedLabel(base, count)
        IN  NormalizeFrom(columns, idx + 1, Append(normalized, label),
                          SeenPut(seen, label, count + 1))

_normalize_headers(columns) == NormalizeFrom(columns, 1, <<>>, <<>>)

-----------------------------------------------------------------------------
(* _clean_sheet_dataframe *)

(* A frame is [columns |-> labels, rows |-> rows], each row as long as the   *)
(* labels; a cell is NA or text.  A ratio is [n, d] for n / d; d = 0 is the  *)
(* NaN that pandas gives for the mean of nothing, and NaN >= x is false.     *)

Ratio(n, d) == [n |-> n, d |-> d]

\* mean >= threshold, the threshold a rational [num, den]
AtLeast(ratio, threshold) ==
    /\ ratio.d > 0
    /\ ratio.n * threshold.den >= threshold.num * ratio.d

DefaultMinColumnCoverage == [num |-> 12, den |-> 100]
DefaultMinRowSignal      == [num |-> 18, den |-> 100]

NRows(frame) == Len(frame.rows)
NCols(frame) == Len(frame.columns)

\* applymap(strip if str) followed by replace({"": NA, " ": NA})
NormalizeCell(value) ==
    LET trimmed == IF value # NA THEN Strip(value) ELSE value
    IN  IF trimmed = <<>> \/ trimmed = <<" ">> THEN NA ELSE trimmed

\* lines 98-103: the copy with normalized headers and cells
NormalizedFrame(frame) ==
    [columns |-> _normalize_headers(frame.columns),
     rows    |-> [r \in 1..NRows(frame) |->
                    [c \in 1..NCols(frame) |-> NormalizeCell(frame.rows[r][c])]]]

\* notna().mean() of column c
ColumnCoverage(frame, c) ==
    Ratio(Cardinality({r \in 1..NRows(frame) : frame.rows[r][c] # NA}),
          NRows(frame))

\* the keys of a dict built from the labels: each label once, in the order of
\* its first occurrence
RECURSIVE DictKeys(_)
DictKeys(labels) ==
    IF labels = <<>> THEN <<>>
    ELSE LET front == DictKeys(SubSeq(labels, 1, Len(labels) - 1))
             last  == labels[Len(labels)]
         IN  IF \E i \in 1..Len(front) : front[i] = last
             THEN front ELSE Append(front, last)

\* Series.to_dict(): a label that occurs twice keeps the value of its last column
LastColumnOf(labels, label) ==
    CHOOSE c \in 1..Len(labels) :
        /\ labels[c] = label
        /\ \A k \in (c + 1)..Len(labels) : labels[k] # label

\* line 105: coverage = normalized.notna().mean().to_dict()
CoverageDict(frame) ==
    [label \in {frame.columns[c] : c \in 1..NCols(frame)} |->
        ColumnCoverage(frame, LastColumnOf(frame.columns, label))]

\* lines 106-108
ColumnsToKeep(frame, min_column_coverage) ==
    LET coverage == CoverageDict(frame)
        Keeps(label) == AtLeast(coverage[label], min_column_coverage)
    IN  SelectSeq(DictKeys(frame.columns), Keeps)

\* the positions that frame[keys] selects: for each key, every column that
\* bears it
RECURSIVE PositionsOf(_, _)
PositionsOf(labels, keys) ==
    IF keys = <<>> THEN <<>>
    ELSE LET Bears(c) == labels[c] = Head(keys)
         IN  SelectSeq([c \in 1..Len(labels) |-> c], Bears)
                 \o PositionsOf(labels, Tail(keys))

TakeColumns(frame, positions) ==
    [columns |-> [k \in 1..Len(positions) |-> frame.columns[positions[k]]],
     rows    |-> [r \in 1..NRows(frame) |->
                    [k \in 1..Len(positions) |-> frame.rows[r][positions[k]]]]]

\* Pruned without column pruning
PrunedKeepsAll(normalized, columns_to_keep) == normalized

\* Pruned without the fallback to the whole frame
PrunedNoFallback(normalized, columns_to_keep) ==
    TakeColumns(normalized, PositionsOf(normalized.columns, columns_to_keep))

\* line 109: pruned = normalized[columns_to_keep] if columns_to_keep else normalized
Pruned(normalized, columns_to_keep) ==
    IF columns_to_keep # <<>>
    THEN TakeColumns(normalized, PositionsOf(normalized.columns, columns_to_keep))
    ELSE normalized

\* line 112: notna().mean(axis=1) of one row
RowSignal(row) ==
    Ratio(Cardinality({c \in 1..Len(row) : row[c] # NA}), Len(row))

\* line 113: pruned.loc[row_signal >= min_row_signal].reset_index(drop=True)
Filtered(pruned, min_row_signal) ==
    LET Keeps(row) == AtLeast(RowSignal(row), min_row_signal)
    IN  [columns |-> pruned.columns, rows |-> SelectSeq(pruned.rows, Keeps)]

\* _analyze_column_patterns reads frame[column] as a Series.  For a label that
\* two columns bear, frame[column] is a DataFrame: dropna() keeps the rows
\* filled in all of them, and unless none is left, .str raises AttributeError.
PatternsRaise(frame) ==
    \E c1, c2 \in 1..NCols(frame) :
        /\ c1 # c2
        /\ frame.columns[c1] = frame.columns[c2]
        /\ \E r \in 1..NRows(frame) :
               \A c \in 1..NCols(frame) :
                   frame.columns[c] = frame.columns[c1] => frame.rows[r][c] # NA

\* what a call that raised leaves behind
Raised == [raised |-> TRUE]

_clean_sheet_dataframe(frame, min_column_coverage, min_row_signal) ==
    LET normalized      == NormalizedFrame(frame)
        columns_to_keep == ColumnsToKeep(normalized, min_column_coverage)
        pruned          == Pruned(normalized, columns_to_keep)
        filtered        == Filtered(pruned, min_row_signal)
    IN  IF PatternsRaise(filtered) THEN Raised
        ELSE [raised          |-> FALSE,
              frame           |-> filtered,
              dropped_rows    |-> NRows(pruned) - NRows(filtered),
              dropped_columns |-> NCols(normalized) - NCols(pruned),
              column_coverage |-> CoverageDict(normalized)]

-----------------------------------------------------------------------------
(* _load_excel *)

(* file_bytes is [kind |-> "empty"], [kind |-> "invalid"] (bytes that       *)
(* pd.ExcelFile rejects) or [kind |-> "workbook", sheets |-> ...], the       *)
(* sheets in workbook order, each [name, frame] with the frame that          *)
(* read_excel(dtype=str) gives when it reads the whole sheet.                *)

Min(a, b) == IF a <= b THEN a ELSE b

RemoveAt(q, i) == SubSeq(q, 1, i - 1) \o SubSeq(q, i + 1, Len(q))

\* pd.read_excel(workbook, sheet_name=..., dtype=str, nrows=nrows)
ReadExcel(sheet, nrows) ==
    [columns |-> sheet.frame.columns,
     rows    |-> SubSeq(sheet.frame.rows, 1, Min(nrows, NRows(sheet.frame)))]

\* cleaned.fillna("").to_dict(orient="records"): one dict per row; of two
\* columns with one label the last gives the value
Records(cleaned) ==
    [r \in 1..NRows(cleaned) |->
        [label \in {cleaned.columns[c] : c \in 1..NCols(cleaned)} |->
            LET value == cleaned.rows[r][LastColumnOf(cleaned.columns, label)]
            IN  IF value = NA THEN <<>> ELSE value]]

\* records[:n]
Take(records, n) == SubSeq(records, 1, Min(n, Len(records)))

\* TruncatedFlag with the cap counted as exceeded
TruncatedAtCap(full_row_count, max_rows_per_sheet) ==
    full_row_count >= max_rows_per_sheet

\* lines 179-180: if full_row_count > max_rows_per_sheet: truncated = True
TruncatedFlag(full_row_count, max_rows_per_sheet) ==
    full_row_count > max_rows_per_sheet

\* lines 164-204, the body of the loop for one sheet that cleaned without
\* raising
SheetPreview(sheet, cleanup, sample_rows, max_rows_per_sheet) ==
    LET cleaned        == cleanup.frame
        records        == Records(cleaned)
        full_row_count == Len(records)
        truncated      == TruncatedFlag(full_row_count, max_rows_per_sheet)
        capped         == IF truncated THEN Take(records, max_rows_per_sheet)
                          ELSE records
        \* workbook.parse(sheet_name, nrows=0) when cleaning left no columns
        columns        == IF cleaned.columns = <<>> THEN sheet.frame.columns
                          ELSE cleaned.columns
        preview_rows   == Take(capped, sample_rows)
    IN  [sheet            |-> sheet.name,
         columns          |-> columns,
         sample_row_count |-> Len(preview_rows),
         preview_rows     |-> preview_rows,
         total_rows       |-> full_row_count,
         truncated        |-> truncated,
         dropped_rows     |-> cleanup.dropped_rows,
         dropped_columns  |-> cleanup.dropped_columns,
         column_coverage  |-> cleanup.column_coverage]

\* line 173, with the default thresholds
CleanupOf(sheet, max_rows_per_sheet) ==
    _clean_sheet_dataframe(ReadExcel(sheet, max_rows_per_sheet + 1),
                           DefaultMinColumnCoverage, DefaultMinRowSignal)

\* lines 151-153: set(sheet_names) - set(workbook.sheet_names)
MissingSheets(sheets, sheet_names) ==
    {sheet_names[i] : i \in 1..Len(sheet_names)}
        \ {sheets[k].name : k \in 1..Len(sheets)}

\* lines 161-163: the sheets the loop does not skip, in workbook order
SelectedSheets(sheets, sheet_names) ==
    LET Wanted(sheet) ==
            \/ sheet_names = <<>>
            \/ \E i \in 1..Len(sheet_names) : sheet_names[i] = sheet.name
    IN  SelectSeq(sheets, Wanted)

HTTPException(status_code, detail) ==
    [ok |-> FALSE, status_code |-> status_code, detail |-> detail]

\* the characters of the sheet names, in code point order
Alphabet == <<" ", ",", "0", "1", "2", "9", "S">>
Ord(c) == CHOOSE i \in 1..Len(Alphabet) : Alphabet[i] = c

\* a < b for two str: the first differing code point decides, a proper prefix
\* is smaller
RECURSIVE StrLess(_, _)
StrLess(a, b) ==
    IF b = <<>> THEN FALSE
    ELSE IF a = <<>> THEN TRUE
    ELSE IF Head(a) # Head(b) THEN Ord(Head(a)) < Ord(Head(b))
    ELSE StrLess(Tail(a), Tail(b))

\* sorted(names) for a set of str
RECURSIVE Sorted(_)
Sorted(names) ==
    IF names = {} THEN <<>>
    ELSE LET least == CHOOSE a \in names : \A b \in names \ {a} : StrLess(a, b)
         IN  <<least>> \o Sorted(names \ {least})

\* separator.join(parts)
RECURSIVE Join(_, _)
Join(separator, parts) ==
    IF parts = <<>> THEN <<>>
    ELSE IF Len(parts) = 1 THEN parts[1]
    ELSE parts[1] \o separator \o Join(separator, Tail(parts))

\* lines 154-159 and 229-234: the detail is the text "Sheet(s) not found: "
\* followed by missing_list = ", ".join(sorted(missing))
SheetsNotFound(missing) ==
    HTTPException(404, [message      |-> "Sheet(s) not found: ",
                        missing_list |-> Join(<<",", " ">>, Sorted(missing))])

\* an exception that is not an HTTPException leaves the call
Unhandled(exception) ==
    [ok |-> FALSE, status_code |-> 500, detail |-> [message |-> exception]]

_load_excel(file_bytes, sample_rows, max_rows_per_sheet, sheet_names) ==
    IF file_bytes.kind = "empty"
    THEN HTTPException(400, [message |-> "Empty upload received"])
    ELSE IF file_bytes.kind = "invalid"
    THEN HTTPException(400, [message |-> "Invalid Excel file"])
    ELSE IF sheet_names # <<>> /\ MissingSheets(file_bytes.sheets, sheet_names) # {}
    THEN SheetsNotFound(MissingSheets(file_bytes.sheets, sheet_names))
    ELSE
        LET selected == SelectedSheets(file_bytes.sheets, sheet_names)
            cleanups == [k \in 1..Len(selected) |->
                            CleanupOf(selected[k], max_rows_per_sheet)]
        IN  IF \E k \in 1..Len(selected) : cleanups[k].raised
            \* the AttributeError of _analyze_column_patterns leaves the call
            THEN Unhandled("AttributeError")
            ELSE [ok |-> TRUE,
                  sheets |-> [k \in 1..Len(selected) |->
                                 SheetPreview(selected[k], cleanups[k],
                                              sample_rows, max_rows_per_sheet)]]

\* line 247, with the default thresholds, over the max_rows_per_sheet rows
\* of line 244
FrameCleanupOf(sheet, max_rows_per_sheet) ==
    _clean_sheet_dataframe(ReadExcel(sheet, max_rows_per_sheet),
                           DefaultMinColumnCoverage, DefaultMinRowSignal)

\* The dict of cleaned frames is a sequence of [sheet, frame] in insertion
\* order; the sheet names of a workbook are distinct.
_load_sheet_frames(file_bytes, max_rows_per_sheet, sheet_names) ==
    IF file_bytes.kind = "empty"
    THEN HTTPException(400, [message |-> "Empty upload received"])
    ELSE IF file_bytes.kind = "invalid"
    THEN HTTPException(400, [message |-> "Invalid Excel file"])
    ELSE IF sheet_names # <<>> /\ MissingSheets(file_bytes.sheets, sheet_names) # {}
    THEN SheetsNotFound(MissingSheets(file_bytes.sheets, sheet_names))
    ELSE
        LET selected == SelectedSheets(file_bytes.sheets, sheet_names)
            cleanups == [k \in 1..Len(selected) |->
                            FrameCleanupOf(selected[k], max_rows_per_sheet)]
        IN  IF \E k \in 1..Len(selected) : cleanups[k].raised
            THEN Unhandled("AttributeError")
            ELSE IF selected = <<>>
            THEN HTTPException(404, [message |-> "No sheets found in workbook"])
            ELSE [ok |-> TRUE,
                  frames |-> [k \in 1..Len(selected) |->
                                 [sheet |-> selected[k].name,
                                  frame |-> cleanups[k].frame]]]

-----------------------------------------------------------------------------
(* _build_navigation *)

(* sheets is the list of preview payloads, each a dict with the key "sheet". *)
(* Positions are Python's, counted from 0.                                   *)

\* x in names
Contains(names, x) == \E i \in 1..Len(names) : names[i] = x

\* names.index(x) for an x in names: the first position that holds it
IndexOf(names, x) ==
    (CHOOSE i \in 1..Len(names) :
        /\ names[i] = x
        /\ \A j \in 1..(i - 1) : names[j] # x) - 1

\* names[index]
At(names, index) == names[index + 1]

\* the None that is returned in place of a SheetCursor
NoCursor == [cursor |-> None]

\* the cursor that always starts at the first sheet
CurrentSheetFirst(sheet_names, requested_sheet) == sheet_names[1]

\* line 326: requested_sheet if requested_sheet in sheet_names else
\* sheet_names[0]
CurrentSheet(sheet_names, requested_sheet) ==
    IF Contains(sheet_names, requested_sheet) THEN requested_sheet
    ELSE sheet_names[1]

_build_navigation(sheets, requested_sheet) ==
    IF sheets = <<>> THEN NoCursor
    ELSE
        LET sheet_names == [i \in 1..Len(sheets) |-> sheets[i].sheet]
            wanted      == CurrentSheet(sheet_names, requested_sheet)
            \* lines 328-332: index() raising ValueError falls back to the
            \* first sheet
            found         == Contains(sheet_names, wanted)
            current_index == IF found THEN IndexOf(sheet_names, wanted) ELSE 0
            current       == IF found THEN wanted ELSE sheet_names[1]
            previous_sheet ==
                IF current_index > 0 THEN At(sheet_names, current_index - 1)
                ELSE None
            next_sheet ==
                IF current_index + 1 < Len(sheet_names)
                THEN At(sheet_names, current_index + 1)
                ELSE None
        IN  [current   |-> current,
             available |-> sheet_names,
             previous  |-> previous_sheet,
             next      |-> next_sheet]

-----------------------------------------------------------------------------
(* _iqr_cap (ml_pipeline.py) *)

(* A numeric column is a sequence of entries: NaN, or <<v>> for the number   *)
(* v.  Quartiles of integers are multiples of 1/4 and the bounds multiples   *)
(* of 1/8; they are kept as integers, 4 times and 8 times the value, and as  *)
(* ratios [num, den] in the summary (den = 0 is NaN).                        *)

NaN == <<>>
Number(v) == <<v>>

\* series.dropna(), as values
RECURSIVE NotNa(_)
NotNa(series) ==
    IF series = <<>> THEN <<>>
    ELSE IF Head(series) = NaN THEN NotNa(Tail(series))
    ELSE <<Head(series)[1]>> \o NotNa(Tail(series))

\* the values in ascending order
RECURSIVE Ascend(_)
Ascend(values) ==
    IF values = <<>> THEN <<>>
    ELSE LET i == CHOOSE k \in 1..Len(values) :
                      \A j \in 1..Len(values) : values[k] <= values[j]
         IN  <<values[i]>> \o Ascend(RemoveAt(values, i))

\* 4 * series.quantile(quarters / 4): linear interpolation between the two
\* order statistics around position (n - 1) * quarters / 4 of the values
\* that are not NaN
QuantileTimes4(series, quarters) ==
    LET sorted   == Ascend(NotNa(series))
        position == (Len(sorted) - 1) * quarters
        below    == position \div 4
        fraction == position % 4
    IN  IF fraction = 0 THEN 4 * At(sorted, below)
        ELSE 4 * At(sorted, below)
               + fraction * (At(sorted, below + 1) - At(sorted, below))

\* lines 71-72, times 8
LowerTimes8(series) ==
    LET q1 == QuantileTimes4(series, 1)
        q3 == QuantileTimes4(series, 3)
    IN  2 * q1 - 3 * (q3 - q1)
UpperTimes8(series) ==
    LET q1 == QuantileTimes4(series, 1)
        q3 == QuantileTimes4(series, 3)
    IN  2 * q3 + 3 * (q3 - q1)

\* 8 * (the entry of series.clip(lower, upper)) for an entry that is a number
ClippedTimes8(entry, lower8, upper8) ==
    IF 8 * entry[1] < lower8 THEN lower8
    ELSE IF 8 * entry[1] > upper8 THEN upper8
    ELSE 8 * entry[1]

\* line 77, one entry of clipped != series: NaN stays NaN under clip, and
\* NaN != NaN is True; with NaN bounds clip changes nothing
Differs(entry, series) ==
    IF entry = NaN THEN TRUE
    ELSE IF NotNa(series) = <<>> THEN FALSE
    ELSE ClippedTimes8(entry, LowerTimes8(series), UpperTimes8(series))
             # 8 * entry[1]

\* the body of the loop of lines 64-79 for one numeric column: its entry of
\* the summary, or no entry for an empty series
_iqr_cap(series) ==
    IF series = <<>> THEN [skipped |-> TRUE]
    ELSE [skipped |-> FALSE,
          lower   |-> IF NotNa(series) = <<>> THEN Ratio(0, 0)
                      ELSE Ratio(LowerTimes8(series), 8),
          upper   |-> IF NotNa(series) = <<>> THEN Ratio(0, 0)
                      ELSE Ratio(UpperTimes8(series), 8),
          capped  |-> Cardinality({i \in 1..Len(series) :
                                      Differs(series[i], series)})]

-----------------------------------------------------------------------------
(* ExcelProcessingQueue and the endpoints *)

(* One asyncio event loop runs the handler tasks and the worker task: a step *)
(* of the loop takes the first callback of `ready` and runs that task up to  *)
(* its next suspension.  _load_excel runs on a thread of the loop's default  *)
(* executor, beside the loop.  /ml/pipeline calls _load_sheet_frames in the  *)
(* handler itself, on the loop's thread: no loop step runs meanwhile.        *)

Requests  == 1..MaxRequests
\* a worker task can at most be created once per enqueue
Workers   == 1..MaxRequests
Endpoints == {"preview", "normalize", "ml"}
\* the endpoints whose handler calls processing_queue.enqueue
Queued(e) == e \in {"preview", "normalize"}

Handler(r) == <<"handler", r>>
Worker(w)  == <<"worker", w>>

\* a job whose coroutine was started and has not returned or raised yet
Executing(r) == job[r] \in {"submitted", "parsing", "returned", "raised"}

\* Queue.get_nowait() with the item taken from the right end
GetIndexLast(q) == Len(q)

\* Queue.get_nowait(): popleft()
GetIndex(q) == 1

\* _ensure_worker without the started flag
StartsWorkerAlways(worker_started) == TRUE

\* lines 291-293: a worker task is created unless the flag is set
StartsWorker(worker_started) == ~worker_started

\* _ensure_worker leaving the flag as it found it
WorkerStartedKept(worker_started) == worker_started

\* line 293: self._worker_started = True
WorkerStartedAfter(worker_started) == TRUE

QueueInit ==
    /\ ep = [r \in Requests |-> "none"]
    /\ hpc = [r \in Requests |-> "new"]
    /\ fut = [r \in Requests |-> "none"]
    /\ outcome = [r \in Requests |-> "none"]
    /\ job = [r \in Requests |-> "none"]
    /\ order = <<>>
    /\ queue = <<>>
    /\ getters = <<>>
    /\ started = FALSE
    /\ wpc = [w \in Workers |-> "none"]
    /\ cur = [w \in Workers |-> 0]
    /\ ready = <<>>
    /\ loopBusy = 0

\* A request arrives at endpoint e; its handler task has read the upload
\* (line 416, 452 or 506) and is scheduled to go on.
Arrive(r, e) ==
    /\ UNCHANGED <<hvars, cvars, lvars, nvars, ivars>>
    /\ loopBusy = 0
    /\ hpc[r] = "new"
    /\ \A q \in Requests : q < r => hpc[q] # "new"
    /\ ep' = [ep EXCEPT ![r] = e]
    /\ hpc' = [hpc EXCEPT ![r] = "reading"]
    /\ ready' = Append(ready, Handler(r))
    /\ UNCHANGED <<fut, outcome, job, order, queue, getters, started, wpc, cur,
                   loopBusy>>

\* the handler of r is the loop's next callback
Runs(task) == loopBusy = 0 /\ ready # <<>> /\ Head(ready) = task

\* enqueue (lines 308-313), up to its suspension in "await future":
\* _ensure_worker, create_future, queue.put.  None of the three suspends (the
\* queue is unbounded); put wakes the first task waiting in get.
HandlerEnqueue(r) ==
    /\ UNCHANGED <<hvars, cvars, lvars, nvars, ivars>>
    /\ Runs(Handler(r))
    /\ hpc[r] = "reading"
    /\ Queued(ep[r])
    /\ LET create  == StartsWorker(started)
           w       == CHOOSE x \in Workers :
                          /\ wpc[x] = "none"
                          /\ \A y \in Workers : y < x => wpc[y] # "none"
           created == IF create THEN <<Worker(w)>> ELSE <<>>
           woken   == IF getters # <<>> THEN <<Worker(Head(getters))>> ELSE <<>>
       IN  /\ started' = WorkerStartedAfter(started)
           /\ wpc' = IF create THEN [wpc EXCEPT ![w] = "new"] ELSE wpc
           /\ getters' = IF getters # <<>> THEN Tail(getters) ELSE getters
           /\ ready' = Tail(ready) \o created \o woken
    /\ fut' = [fut EXCEPT ![r] = "pending"]
    /\ queue' = Append(queue, r)
    /\ order' = Append(order, r)
    /\ hpc' = [hpc EXCEPT ![r] = "awaiting"]
    /\ UNCHANGED <<ep, outcome, job, cur, loopBusy>>

\* ml_pipeline_preview, line 508: _load_sheet_frames is called in the handler,
\* on the loop's thread
HandlerMlBegin(r) ==
    /\ UNCHANGED <<hvars, cvars, lvars, nvars, ivars>>
    /\ Runs(Handler(r))
    /\ hpc[r] = "reading"
    /\ ep[r] = "ml"
    /\ hpc' = [hpc EXCEPT ![r] = "parsing"]
    /\ loopBusy' = r
    /\ ready' = Tail(ready)
    /\ UNCHANGED <<ep, fut, outcome, job, order, queue, getters, started, wpc, cur>>

\* lines 508-534: _load_sheet_frames returns or raises, the handler ends and
\* the loop gets its thread back
HandlerMlEnd(r) ==
    /\ UNCHANGED <<hvars, cvars, lvars, nvars, ivars>>
    /\ loopBusy = r
    /\ hpc' = [hpc EXCEPT ![r] = "done"]
    /\ loopBusy' = 0
    /\ UNCHANGED <<ep, fut, outcome, job, order, queue, getters, started, wpc,
                   cur, ready>>

\* line 313: "return await future" resumes with the result or the exception
HandlerDeliver(r) ==
    /\ UNCHANGED <<hvars, cvars, lvars, nvars, ivars>>
    /\ Runs(Handler(r))
    /\ hpc[r] = "awaiting"
    /\ fut[r] \in {"result", "exception"}
    /\ hpc' = [hpc EXCEPT ![r] = "done"]
    /\ ready' = Tail(ready)
    /\ UNCHANGED <<ep, fut, outcome, job, order, queue, getters, started, wpc,
                   cur, loopBusy>>

\* The caller abandons its wait: its task is cancelled while it is suspended
\* in "await future" (line 313).  Task.cancel() cancels the future the task
\* waits for, if that is still pending, and the future wakes the task.
Cancel(r) ==
    /\ UNCHANGED <<hvars, cvars, lvars, nvars, ivars>>
    /\ loopBusy = 0
    /\ hpc[r] = "awaiting"
    /\ hpc' = [hpc EXCEPT ![r] = "cancelling"]
    /\ IF fut[r] = "pending"
       THEN /\ fut' = [fut EXCEPT ![r] = "cancelled"]
            /\ ready' = Append(ready, Handler(r))
       ELSE UNCHANGED <<fut, ready>>
    /\ UNCHANGED <<ep, outcome, job, order, queue, getters, started, wpc, cur,
                   loopBusy>>

\* the cancelled task is resumed with CancelledError and ends
HandlerCancelled(r) ==
    /\ UNCHANGED <<hvars, cvars, lvars, nvars, ivars>>
    /\ Runs(Handler(r))
    /\ hpc[r] = "cancelling"
    /\ hpc' = [hpc EXCEPT ![r] = "cancelled"]
    /\ ready' = Tail(ready)
    /\ UNCHANGED <<ep, fut, outcome, job, order, queue, getters, started, wpc,
                   cur, loopBusy>>

\* Lines 297-300, the top of the worker's loop: "await self._queue.get()"
\* suspends only on an empty queue; with an item, coro_factory() is called and
\* the worker is suspended until run_in_executor (line 266) completes.
WorkerTakes(w, jobNow, readyNow) ==
    IF queue = <<>>
    THEN /\ wpc' = [wpc EXCEPT ![w] = "get"]
         /\ cur' = [cur EXCEPT ![w] = 0]
         /\ getters' = Append(getters, w)
         /\ job' = jobNow
         /\ UNCHANGED queue
         /\ ready' = readyNow
    ELSE LET i == GetIndex(queue)
         IN  /\ wpc' = [wpc EXCEPT ![w] = "running"]
             /\ cur' = [cur EXCEPT ![w] = queue[i]]
             /\ queue' = RemoveAt(queue, i)
             /\ job' = [jobNow EXCEPT ![queue[i]] = "submitted"]
             /\ UNCHANGED getters
             /\ ready' = readyNow

\* the worker task starts, or resumes in get after a put
WorkerGet(w) ==
    /\ UNCHANGED <<hvars, cvars, lvars, nvars, ivars>>
    /\ Runs(Worker(w))
    /\ wpc[w] \in {"new", "get"}
    /\ WorkerTakes(w, job, Tail(ready))
    /\ UNCHANGED <<ep, hpc, fut, outcome, order, started, loopBusy>>

\* Lines 300-306: the job's coroutine has returned or raised.  set_result and
\* set_exception raise InvalidStateError on a future that is cancelled: from
\* the else clause and from inside the except clause that error leaves the
\* loop, and the worker task ends.  Otherwise the future wakes the caller and
\* the worker goes round the loop.
WorkerCollect(w) ==
    /\ UNCHANGED <<hvars, cvars, lvars, nvars, ivars>>
    /\ Runs(Worker(w))
    /\ wpc[w] = "running"
    /\ job[cur[w]] \in {"returned", "raised"}
    /\ LET r == cur[w]
           collected == [job EXCEPT ![r] = "collected"]
       IN  IF fut[r] = "pending"
           THEN /\ fut' = [fut EXCEPT ![r] = IF job[r] = "raised" THEN "exception"
                                             ELSE "result"]
                /\ WorkerTakes(w, collected, Tail(ready) \o <<Handler(r)>>)
           ELSE /\ wpc' = [wpc EXCEPT ![w] = "dead"]
                /\ cur' = [cur EXCEPT ![w] = 0]
                /\ job' = collected
                /\ ready' = Tail(ready)
                /\ UNCHANGED <<fut, queue, getters>>
    /\ UNCHANGED <<ep, hpc, outcome, order, started, loopBusy>>

\* a thread of the executor begins _load_excel (lines 266-274)
ThreadStart(r) ==
    /\ UNCHANGED <<hvars, cvars, lvars, nvars, ivars>>
    /\ job[r] = "submitted"
    /\ job' = [job EXCEPT ![r] = "parsing"]
    /\ UNCHANGED <<ep, hpc, fut, outcome, order, queue, getters, started, wpc,
                   cur, ready, loopBusy>>

\* _load_excel returns its previews or raises HTTPException; the executor's
\* future wakes the worker that awaits it
ThreadFinish(r, how) ==
    /\ UNCHANGED <<hvars, cvars, lvars, nvars, ivars>>
    /\ job[r] = "parsing"
    /\ job' = [job EXCEPT ![r] = how]
    /\ outcome' = [outcome EXCEPT ![r] = how]
    /\ \E w \in Workers :
           /\ cur[w] = r
           /\ ready' = Append(ready, Worker(w))
    /\ UNCHANGED <<ep, hpc, fut, order, queue, getters, started, wpc, cur, loopBusy>>

QueueNext ==
    \/ \E r \in Requests, e \in Endpoints : Arrive(r, e)
    \/ \E r \in Requests : HandlerEnqueue(r)
    \/ \E r \in Requests : HandlerMlBegin(r)
    \/ \E r \in Requests : HandlerMlEnd(r)
    \/ \E r \in Requests : HandlerDeliver(r)
    \/ \E r \in Requests : Cancel(r)
    \/ \E r \in Requests : HandlerCancelled(r)
    \/ \E w \in Workers : WorkerGet(w)
    \/ \E w \in Workers : WorkerCollect(w)
    \/ \E r \in Requests : ThreadStart(r)
    \/ \E r \in Requests, how \in {"returned", "raised"} : ThreadFinish(r, how)

QueueIdle ==
    /\ ep = <<>> /\ hpc = <<>> /\ fut = <<>> /\ outcome = <<>> /\ job = <<>>
    /\ order = <<>> /\ queue = <<>> /\ getters = <<>> /\ started = FALSE
    /\ wpc = <<>> /\ cur = <<>> /\ ready = <<>> /\ loopBusy = 0

-----------------------------------------------------------------------------
(* Inputs of the header normalizer *)

RawLabels ==
    { None, <<>>, <<" ">>, <<"A">>, <<" ", "A">>, <<"A", "_", "_", "1">>,
      <<"c", "o", "l", "_", "2">> }

RECURSIVE SeqsUpTo(_, _)
SeqsUpTo(S, n) ==
    IF n = 0 THEN {<<>>}
    ELSE LET shorter == SeqsUpTo(S, n - 1)
         IN  shorter \cup {Append(s, x) : s \in {t \in shorter : Len(t) = n - 1}, x \in S}

HeadersIdle == hdrIn = <<>> /\ hdrOut = <<>> /\ hdrPc = "idle"

HeadersInit ==
    /\ hdrIn \in SeqsUpTo(RawLabels, MaxLabels)
    /\ hdrOut = <<>>
    /\ hdrPc = "input"

NormalizeHeaders ==
    /\ UNCHANGED <<cvars, lvars, nvars, ivars, qvars>>
    /\ hdrPc = "input"
    /\ hdrOut' = _normalize_headers(hdrIn)
    /\ hdrPc' = "done"
    /\ UNCHANGED hdrIn

-----------------------------------------------------------------------------
(* Inputs of the sheet cleaner *)

\* a missing cell, a blank cell, and text with whitespace around it
CellValues == { NA, <<" ">>, <<" ", "x">> }

Letters == <<"A", "B", "C", "D", "E", "F", "G", "H", "I", "J">>

\* header rows of n columns: distinct letters; the same with a blank first
\* label; the same with the first labels differing only in whitespace
PlainHeader(n)  == [c \in 1..n |-> <<Letters[c]>>]
BlankHeader(n)  == [c \in 1..n |-> IF c = 1 THEN <<>> ELSE <<Letters[c]>>]
SpacedHeader(n) ==
    [c \in 1..n |-> CASE c = 1 -> <<"A">>
                      [] c = 2 -> <<" ", "A">>
                      [] c = 3 -> <<"A", " ">>
                      [] OTHER -> <<Letters[c]>>]
Headers(n) == { PlainHeader(n), BlankHeader(n), SpacedHeader(n) }

\* the shapes (rows, columns) of at most maxCells cells; a frame without
\* columns has no rows
Shapes(maxCells) ==
    { <<0, 0>> } \cup
    { sh \in (0..maxCells) \X (1..maxCells) : sh[1] * sh[2] <= maxCells }

\* the frames of at most maxCells cells with a header row of headers[n] and
\* cells among values
FramesWith(headers, values, maxCells) ==
    UNION { { [columns |-> h, rows |-> rs] :
                h \in headers[sh[2]],
                rs \in [1..sh[1] -> [1..sh[2] -> values]] } :
            sh \in Shapes(maxCells) }

Frames(maxCells) ==
    FramesWith([n \in 0..maxCells |-> Headers(n)], CellValues, maxCells)

Thresholds ==
    { DefaultMinColumnCoverage, DefaultMinRowSignal, [num |-> 1, den |-> 2] }

CleanInit ==
    /\ tbl \in Frames(MaxCells)
    /\ minCov \in Thresholds
    /\ minSig \in Thresholds
    /\ clean1 = <<>>
    /\ clean2 = <<>>
    /\ cleanPc = "input"

\* _clean_sheet_dataframe(frame, min_column_coverage=..., min_row_signal=...)
Clean ==
    /\ UNCHANGED <<hvars, lvars, nvars, ivars, qvars>>
    /\ cleanPc = "input"
    /\ clean1' = _clean_sheet_dataframe(tbl, minCov, minSig)
    /\ cleanPc' = "cleaned"
    /\ UNCHANGED <<tbl, minCov, minSig, clean2>>

\* the cleaner run on its own output, with the same thresholds
ReClean ==
    /\ UNCHANGED <<hvars, lvars, nvars, ivars, qvars>>
    /\ cleanPc = "cleaned"
    /\ ~clean1.raised
    /\ clean2' = _clean_sheet_dataframe(clean1.frame, minCov, minSig)
    /\ cleanPc' = "recleaned"
    /\ UNCHANGED <<tbl, minCov, minSig, clean1>>

-----------------------------------------------------------------------------
(* Inputs of the preview loader *)

S0 == <<"S", "0">>
S1 == <<"S", "1">>
S2 == <<"S", "2">>
S9 == <<"S", "9">>

SheetNames == <<S1, S2>>

Cells(frame) == NRows(frame) * NCols(frame)

\* a sheet's cells are missing or text; its header row is as read_excel
\* gives it, distinct, with or without stray whitespace
SheetCellValues == { NA, <<" ", "x">> }
SheetHeaders(n) == { PlainHeader(n), SpacedHeader(n) }
\* the reader skips the blank rows of a one-column sheet (skip_blank_lines),
\* so a frame of one column has none
SheetFrames(maxCells) ==
    { f \in FramesWith([n \in 0..maxCells |-> SheetHeaders(n)],
                       SheetCellValues, maxCells) :
        NCols(f) = 1 => \A r \in 1..NRows(f) : f.rows[r][1] # NA }

\* the workbooks of one sheet of at most maxCells cells, and of two sheets of
\* at most pairCells cells together
Workbooks(maxCells, pairCells) ==
    { <<[name |-> SheetNames[1], frame |-> f]>> : f \in SheetFrames(maxCells) }
    \cup
    UNION { { <<[name |-> SheetNames[1], frame |-> f],
                [name |-> SheetNames[2], frame |-> g]>> :
                g \in SheetFrames(pairCells - Cells(f)) } :
            f \in SheetFrames(pairCells) }

Files ==
    { [kind |-> "empty"], [kind |-> "invalid"] }
    \cup { [kind |-> "workbook", sheets |-> w] :
               w \in Workbooks(MaxSheetCells, MaxPairCells) }

\* no filter; one sheet; two sheets, not in workbook order; a filter with one
\* name that no workbook has, and one with two, not in sorted order
SheetFilters ==
    { <<>>, <<S2>>, <<S2, S1>>, <<S1, S9>>, <<S9, S0>> }

LoadIdle ==
    /\ file = <<>> /\ sheetFilter = <<>> /\ sampleRows = 0 /\ maxRows = 0
    /\ loadOut = <<>> /\ loadPc = "idle"
    /\ framesOut = <<>> /\ framesPc = "idle"

LoadInit ==
    /\ file \in Files
    /\ sheetFilter \in SheetFilters
    /\ sampleRows \in 1..MaxSample
    /\ maxRows \in 1..MaxCap
    /\ loadOut = <<>>
    /\ loadPc = "input"
    /\ framesOut = <<>>
    /\ framesPc = "input"

\* _load_excel(file_bytes, sample_rows, max_rows_per_sheet=..., sheet_names=...)
LoadExcel ==
    /\ UNCHANGED <<hvars, cvars, nvars, ivars, qvars>>
    /\ loadPc = "input"
    /\ loadOut' = _load_excel(file, sampleRows, maxRows, sheetFilter)
    /\ loadPc' = "done"
    /\ UNCHANGED <<file, sheetFilter, sampleRows, maxRows, framesOut, framesPc>>

\* _load_sheet_frames(file_bytes, max_rows_per_sheet=..., sheet_names=...)
LoadSheetFrames ==
    /\ UNCHANGED <<hvars, cvars, nvars, ivars, qvars>>
    /\ framesPc = "input"
    /\ framesOut' = _load_sheet_frames(file, maxRows, sheetFilter)
    /\ framesPc' = "done"
    /\ UNCHANGED <<file, sheetFilter, sampleRows, maxRows, loadOut, loadPc>>

-----------------------------------------------------------------------------
(* Inputs of the navigation builder *)

\* the lists of at most maxSheets sheets with pairwise distinct names (the
\* sheet names of one workbook)
SheetLists(maxSheets) ==
    { [i \in 1..Len(names) |-> [sheet |-> names[i]]] :
        names \in { ns \in SeqsUpTo({S0, S1, S2, S9}, maxSheets) :
                       \A i, j \in 1..Len(ns) : i # j => ns[i] # ns[j] } }

\* ?sheet= absent, empty, or a name
RequestedSheets == { None, <<>>, S0, S1, S2, S9 }

NavIdle ==
    /\ navSheets = <<>> /\ navRequested = None /\ navOut = <<>>
    /\ navPc = "idle"

NavInit ==
    /\ navSheets \in SheetLists(MaxSheets)
    /\ navRequested \in RequestedSheets
    /\ navOut = <<>>
    /\ navPc = "input"

\* _build_navigation(sheets, requested_sheet)
BuildNavigation ==
    /\ UNCHANGED <<hvars, cvars, lvars, ivars, qvars>>
    /\ navPc = "input"
    /\ navOut' = _build_navigation(navSheets, navRequested)
    /\ navPc' = "done"
    /\ UNCHANGED <<navSheets, navRequested>>

-----------------------------------------------------------------------------
(* Inputs of the outlier capping *)

SeriesValues == { 1, 2, 3, 4, 100 }

\* _split_column_types, lines 39-43: a column is numeric when more than 0.6 of
\* its entries parse as numbers and it has more than 3 distinct values
IsNumericColumn(series) ==
    /\ 10 * Len(NotNa(series)) > 6 * Len(series)
    /\ Cardinality({series[i] : i \in 1..Len(series)} \ {NaN}) > 3

\* the numeric columns of at most maxSeries entries
NumericColumns(maxSeries) ==
    { series \in SeqsUpTo({NaN} \cup {Number(v) : v \in SeriesValues}, maxSeries) :
        IsNumericColumn(series) }

IqrIdle == capIn = <<>> /\ capOut = <<>> /\ capPc = "idle"

IqrInit ==
    /\ capIn \in NumericColumns(MaxSeries)
    /\ capOut = <<>>
    /\ capPc = "input"

\* _iqr_cap(coerced, numeric_columns), for one of the columns
IqrCap ==
    /\ UNCHANGED <<hvars, cvars, lvars, nvars, qvars>>
    /\ capPc = "input"
    /\ capOut' = _iqr_cap(capIn)
    /\ capPc' = "done"
    /\ UNCHANGED capIn

CleanIdle ==
    /\ tbl = <<>> /\ minCov = <<>> /\ minSig = <<>>
    /\ clean1 = <<>> /\ clean2 = <<>> /\ cleanPc = "idle"

HeadersNext == NormalizeHeaders

InitHeaders == HeadersInit /\ CleanIdle /\ LoadIdle /\ NavIdle /\ IqrIdle /\ QueueIdle

\* _normalize_headers applied to every list of raw labels within the bounds
SpecHeaders == InitHeaders /\ [][HeadersNext]_vars

CleanNext == Clean \/ ReClean

InitClean == HeadersIdle /\ CleanInit /\ LoadIdle /\ NavIdle /\ IqrIdle /\ QueueIdle

\* _clean_sheet_dataframe applied to every frame within the bounds, and once
\* more to what it returned
SpecClean == InitClean /\ [][CleanNext]_vars

LoadNext == LoadExcel \/ LoadSheetFrames

InitLoad == HeadersIdle /\ CleanIdle /\ LoadInit /\ NavIdle /\ IqrIdle /\ QueueIdle

\* _load_excel and _load_sheet_frames applied to every file, filter and pair
\* of caps within the bounds
SpecLoad == InitLoad /\ [][LoadNext]_vars

NavNext == BuildNavigation

InitNav == HeadersIdle /\ CleanIdle /\ LoadIdle /\ NavInit /\ IqrIdle /\ QueueIdle

\* _build_navigation applied to every list of sheets and requested name
\* within the bounds
SpecNav == InitNav /\ [][NavNext]_vars

IqrNext == IqrCap

InitIqr == HeadersIdle /\ CleanIdle /\ LoadIdle /\ NavIdle /\ IqrInit /\ QueueIdle

\* _iqr_cap applied to every numeric column within the bounds
SpecIqr == InitIqr /\ [][IqrNext]_vars

Init == HeadersIdle /\ CleanIdle /\ LoadIdle /\ NavIdle /\ IqrIdle /\ QueueInit

Next == QueueNext

\* the service: requests, the event loop, the queue and its worker
Spec == Init /\ [][Next]_vars

-----------------------------------------------------------------------------
(* Header normalizer: claims *)

Distinct(s) == \A i, j \in 1..Len(s) : i # j => s[i] # s[j]

LabelA == <<"A">>

\* C6: for any list of raw labels (text, empty or None) the result has the
\* same length and its labels are all non-empty and pairwise distinct; three
\* blank labels give col_1, col_2, col_3 and A, A, A gives A, A__1, A__2.
C6_HeaderNormalizer ==
    hdrPc = "done" =>
        /\ Len(hdrOut) = Len(hdrIn)
        /\ \A i \in 1..Len(hdrOut) : hdrOut[i] # <<>>
        /\ Distinct(hdrOut)
        /\ hdrIn = <<<<>>, <<>>, <<>>>> =>
               hdrOut = << <<"c", "o", "l", "_", "1">>,
                           <<"c", "o", "l", "_", "2">>,
                           <<"c", "o", "l", "_", "3">> >>
        /\ hdrIn = <<LabelA, LabelA, LabelA>> =>
               hdrOut = << LabelA, <<"A", "_", "_", "1">>, <<"A", "_", "_", "2">> >>

-----------------------------------------------------------------------------
(* Sheet cleaner: claims *)

\* the first run returned a frame
Cleaned == cleanPc \in {"cleaned", "recleaned"} /\ ~clean1.raised

\* the frame of line 103 and the positions of its columns that line 109 keeps
NormalizedInput == NormalizedFrame(tbl)
RetainedPositions ==
    LET keep == ColumnsToKeep(NormalizedInput, minCov)
    IN  IF keep # <<>> THEN PositionsOf(NormalizedInput.columns, keep)
        ELSE [c \in 1..NCols(NormalizedInput) |-> c]

EveryColumnBelow(frame) ==
    \A c \in 1..NCols(frame) : ~AtLeast(ColumnCoverage(frame, c), minCov)
EveryColumnReaches(frame) ==
    \A c \in 1..NCols(frame) : AtLeast(ColumnCoverage(frame, c), minCov)

RowsHaveSignal(frame) ==
    \A r \in 1..NRows(frame) : AtLeast(RowSignal(frame.rows[r]), minSig)

\* C7 as claimed: for any table and fixed thresholds, the cleaner run on its
\* own cleaned output drops no further rows and no further columns and returns
\* the same table.
C7_Idempotent ==
    (cleanPc = "recleaned") =>
        /\ ~clean2.raised
        /\ clean2.dropped_rows = 0
        /\ clean2.dropped_columns = 0
        /\ clean2.frame = clean1.frame

\* the cleaned tables on which the second run's column test changes nothing
StableColumns(frame) ==
    /\ Distinct(frame.columns)
    /\ EveryColumnReaches(frame) \/ EveryColumnBelow(frame)

\* C7 amended: when the cleaned table has pairwise distinct labels and either
\* all or none of its columns reach min_column_coverage on the cleaned table
\* itself, the second run drops no rows, no columns and returns the same table.
C7_IdempotentWhenColumnsStable ==
    (cleanPc = "recleaned" /\ StableColumns(clean1.frame)) =>
        /\ ~clean2.raised
        /\ clean2.dropped_rows = 0
        /\ clean2.dropped_columns = 0
        /\ clean2.frame = clean1.frame

\* a second run over a table from which the first one dropped rows and columns
C7_Witness ==
    /\ cleanPc = "recleaned"
    /\ StableColumns(clean1.frame)
    /\ clean1.dropped_rows > 0
    /\ clean1.dropped_columns > 0
    /\ NRows(clean1.frame) > 0
    /\ clean1.frame # tbl

\* C8 as claimed: every retained column has coverage (over the normalized
\* frame, before pruning) >= min_column_coverage and every retained row has
\* row-signal over the retained columns >= min_row_signal.
C8_RetainedAboveThreshold ==
    Cleaned =>
        /\ \A k \in 1..Len(RetainedPositions) :
               AtLeast(ColumnCoverage(NormalizedInput, RetainedPositions[k]), minCov)
        /\ RowsHaveSignal(clean1.frame)

\* C8 amended: every retained column's label has a recorded coverage
\* (column_coverage of the report) >= min_column_coverage, unless no label
\* has, and then all columns are retained; every retained row has row-signal
\* over the retained columns >= min_row_signal.
C8_RetainedAboveThresholdOrFallback ==
    Cleaned =>
        /\ \/ \A c \in 1..NCols(clean1.frame) :
                  AtLeast(clean1.column_coverage[clean1.frame.columns[c]], minCov)
           \/ /\ \A label \in DOMAIN clean1.column_coverage :
                     ~AtLeast(clean1.column_coverage[label], minCov)
              /\ clean1.frame.columns = NormalizedInput.columns
              /\ clean1.dropped_columns = 0
        /\ RowsHaveSignal(clean1.frame)

\* a cleaning that dropped a column and a row and kept some of both
C8_Witness ==
    /\ Cleaned
    /\ clean1.dropped_columns > 0
    /\ clean1.dropped_rows > 0
    /\ NRows(clean1.frame) > 0
    /\ NCols(clean1.frame) > 1

\* C9: a table with at least one column is cleaned to a table with at least
\* one column; when every column's coverage is below min_column_coverage all
\* original columns are returned and dropped_columns = 0.
C9_NeverZeroColumns ==
    (Cleaned /\ NCols(tbl) >= 1) =>
        /\ NCols(clean1.frame) >= 1
        /\ EveryColumnBelow(NormalizedInput) =>
               /\ clean1.frame.columns = NormalizedInput.columns
               /\ clean1.dropped_columns = 0

\* the fallback taken on a table with rows, several columns and some values
C9_Witness ==
    /\ Cleaned
    /\ NCols(tbl) >= 2
    /\ NRows(tbl) >= 2
    /\ EveryColumnBelow(NormalizedInput)
    /\ \E c \in 1..NCols(tbl) : ColumnCoverage(NormalizedInput, c).n > 0
    /\ NCols(clean1.frame) = NCols(tbl)

-----------------------------------------------------------------------------
(* Preview loader: claims *)

\* the call returned previews
Loaded == loadPc = "done" /\ loadOut.ok

\* the sheets the previews are of, and the number of rows of sheet k that are
\* left when the max_rows_per_sheet + 1 rows read are cleaned
LoadedSheets == SelectedSheets(file.sheets, sheetFilter)
CleanedRowsRead(k) == NRows(CleanupOf(LoadedSheets[k], maxRows).frame)

\* C10: with max_rows_per_sheet = N, truncated is true iff the cleaned row
\* count of the rows read (total_rows) exceeds N; at most min(N, sample_rows)
\* preview rows are returned; N + 1 cleaned rows give truncated = true and
\* exactly N give truncated = false.
C10_TruncationFlag ==
    Loaded =>
        \A k \in 1..Len(loadOut.sheets) :
            LET preview == loadOut.sheets[k]
            IN  /\ preview.total_rows = CleanedRowsRead(k)
                /\ preview.truncated <=> (preview.total_rows > maxRows)
                /\ Len(preview.preview_rows) <= Min(maxRows, sampleRows)
                /\ preview.sample_row_count = Len(preview.preview_rows)
                /\ CleanedRowsRead(k) = maxRows + 1 => preview.truncated
                /\ CleanedRowsRead(k) = maxRows => ~preview.truncated

\* a sheet longer than what is read, N + 1 cleaned rows, and the cap (not
\* sample_rows) limiting the preview
C10_Witness ==
    /\ Loaded
    /\ \E k \in 1..Len(loadOut.sheets) :
           /\ loadOut.sheets[k].truncated
           /\ loadOut.sheets[k].total_rows = maxRows + 1
           /\ NRows(LoadedSheets[k].frame) > maxRows + 1
           /\ sampleRows > maxRows
           /\ loadOut.sheets[k].sample_row_count = maxRows

\* sheet k of the previews cleaned whole, with the thresholds of the loader
WholeCleanup(k) ==
    _clean_sheet_dataframe(LoadedSheets[k].frame,
                           DefaultMinColumnCoverage, DefaultMinRowSignal)

\* C11: whenever a worksheet holds more than max_rows_per_sheet rows that
\* survive cleaning (so that rows beyond the cap are not returned), the
\* preview of that sheet has truncated = true.
C11_TruncationSignalled ==
    Loaded =>
        \A k \in 1..Len(loadOut.sheets) :
            (/\ ~WholeCleanup(k).raised
             /\ NRows(WholeCleanup(k).frame) > maxRows)
                => loadOut.sheets[k].truncated

\* the names of the filter that no sheet of the workbook bears, and the names
\* of the workbook's sheets that the filter selects, in workbook order
AbsentNames ==
    { name \in {sheetFilter[i] : i \in 1..Len(sheetFilter)} :
        \A k \in 1..Len(file.sheets) : file.sheets[k].name # name }
SelectedNames ==
    LET names == [k \in 1..Len(file.sheets) |-> file.sheets[k].name]
        InFilter(name) ==
            \/ sheetFilter = <<>>
            \/ \E i \in 1..Len(sheetFilter) : sheetFilter[i] = name
    IN  SelectSeq(names, InFilter)

Ascending(names) ==
    \A i \in 1..(Len(names) - 1) : StrLess(names[i], names[i + 1])

\* text is the absent names, each once, in ascending order, joined by ", "
ListsAbsentNames(text) ==
    \E names \in SeqsUpTo(AbsentNames, Cardinality(AbsentNames)) :
        /\ {names[i] : i \in 1..Len(names)} = AbsentNames
        /\ Ascending(names)
        /\ text = Join(<<",", " ">>, names)

\* the sheet names of a successful result, in the order of its entries
EntryNames(out) ==
    IF "sheets" \in DOMAIN out
    THEN [k \in 1..Len(out.sheets) |-> out.sheets[k].sheet]
    ELSE [k \in 1..Len(out.frames) |-> out.frames[k].sheet]

EmptyIsInvalidInput(out) ==
    file.kind = "empty" => (~out.ok /\ out.status_code = 400)

AbsentIsNotFound(out) ==
    (file.kind = "workbook" /\ AbsentNames # {}) =>
        /\ ~out.ok
        /\ out.status_code = 404
        /\ ListsAbsentNames(out.detail.missing_list)

OtherwiseSucceeds(out) ==
    (file.kind = "workbook" /\ AbsentNames = {}) =>
        /\ out.ok
        /\ EntryNames(out) = SelectedNames

\* C13: for _load_excel and for _load_sheet_frames: empty bytes give
\* InvalidInput (400) whatever the filter; for a workbook, a filter with a name
\* absent from it gives NotFound (404) whose message lists exactly the absent
\* names, sorted and comma-joined, and no sheet result; otherwise the call
\* succeeds with one entry per selected sheet in workbook order.
C13_LoaderOutcomes ==
    /\ loadPc = "done" =>
           /\ EmptyIsInvalidInput(loadOut)
           /\ AbsentIsNotFound(loadOut)
           /\ OtherwiseSucceeds(loadOut)
    /\ framesPc = "done" =>
           /\ EmptyIsInvalidInput(framesOut)
           /\ AbsentIsNotFound(framesOut)
           /\ OtherwiseSucceeds(framesOut)

\* the outcomes of C13 that hold: the two errors, and the entries of a call
\* that returns
LoaderErrorOutcomes ==
    /\ loadPc = "done" =>
           /\ EmptyIsInvalidInput(loadOut)
           /\ AbsentIsNotFound(loadOut)
           /\ loadOut.ok => (file.kind = "workbook" /\ AbsentNames = {}
                             /\ EntryNames(loadOut) = SelectedNames)
    /\ framesPc = "done" =>
           /\ EmptyIsInvalidInput(framesOut)
           /\ AbsentIsNotFound(framesOut)
           /\ framesOut.ok => (file.kind = "workbook" /\ AbsentNames = {}
                               /\ EntryNames(framesOut) = SelectedNames)

-----------------------------------------------------------------------------
(* Navigation builder: claims *)

NavNames == [i \in 1..Len(navSheets) |-> navSheets[i].sheet]

\* the place (from 1) of the cursor's current sheet in the list
NavPlace == CHOOSE i \in 1..Len(NavNames) : NavNames[i] = navOut.current

\* C12: for a non-empty ordered list of distinct sheet names and any optional
\* requested name, the cursor's current is the requested name if it is in the
\* list and the first sheet otherwise, its previous is the name immediately
\* before current (null iff current is first) and its next the name
\* immediately after (null iff current is last); for an empty list no cursor
\* is returned.
C12_Navigation ==
    navPc = "done" =>
        IF navSheets = <<>> THEN navOut = NoCursor
        ELSE
            /\ navOut # NoCursor
            /\ navOut.available = NavNames
            /\ navOut.current =
                   IF \E i \in 1..Len(NavNames) : NavNames[i] = navRequested
                   THEN navRequested ELSE NavNames[1]
            /\ (navOut.previous = None) <=> (NavPlace = 1)
            /\ NavPlace > 1 => navOut.previous = NavNames[NavPlace - 1]
            /\ (navOut.next = None) <=> (NavPlace = Len(NavNames))
            /\ NavPlace < Len(NavNames) => navOut.next = NavNames[NavPlace + 1]

\* a requested sheet in the middle of three, with a sheet on either side
C12_Witness ==
    /\ navPc = "done"
    /\ Len(navSheets) = 3
    /\ navRequested = NavNames[2]
    /\ navOut.current = navRequested
    /\ navOut.previous = NavNames[1]
    /\ navOut.next = NavNames[3]

-----------------------------------------------------------------------------
(* Outlier capping: claims *)

\* the entries of the column that are numbers below lower or above upper
OutOfBounds ==
    { i \in 1..Len(capIn) :
        /\ capIn[i] # NaN
        /\ \/ capIn[i][1] * capOut.lower.d < capOut.lower.n
           \/ capIn[i][1] * capOut.upper.d > capOut.upper.n }

\* C14: for every numeric column, with lower = Q1 - 1.5*IQR and upper =
\* Q3 + 1.5*IQR, the reported capped count is exactly the number of values of
\* the column below lower or above upper; missing entries are not counted.
\* For [1,2,3,4,100] the bounds are [-1, 7] and capped = 1.
C14_CappedCount ==
    capPc = "done" =>
        /\ ~capOut.skipped
        /\ capOut.lower =
               Ratio(5 * QuantileTimes4(capIn, 1) - 3 * QuantileTimes4(capIn, 3), 8)
        /\ capOut.upper =
               Ratio(5 * QuantileTimes4(capIn, 3) - 3 * QuantileTimes4(capIn, 1), 8)
        /\ capOut.capped = Cardinality(OutOfBounds)
        /\ capIn = <<Number(1), Number(2), Number(3), Number(4), Number(100)>> =>
               /\ capOut.lower = Ratio(-8, 8)
               /\ capOut.upper = Ratio(56, 8)
               /\ capOut.capped = 1

\* the count of C14 on the columns without a missing entry, and the count
\* that the code reports on every column
CappedCountWithoutMissing ==
    (capPc = "done" /\ \A i \in 1..Len(capIn) : capIn[i] # NaN) =>
        capOut.capped = Cardinality(OutOfBounds)
CappedCountsMissing ==
    capPc = "done" =>
        capOut.capped = Cardinality(OutOfBounds)
                          + Cardinality({i \in 1..Len(capIn) : capIn[i] = NaN})

-----------------------------------------------------------------------------
(* Request serialization queue: claims *)

Enqueued == {order[i] : i \in 1..Len(order)}
Abandoned == {r \in Requests : hpc[r] \in {"cancelling", "cancelled"}}

\* nothing is left to run: no callback, no thread at work, the loop is free
Quiescent ==
    /\ ready = <<>>
    /\ loopBusy = 0
    /\ \A r \in Requests : job[r] \notin {"submitted", "parsing"}

\* every job pushed so far was run, and every caller that still waits for one
\* has its result
AllServed ==
    \A r \in Enqueued :
        /\ job[r] = "collected"
        /\ r \notin Abandoned => hpc[r] = "done"

WorkerAlive == \A w \in Workers : wpc[w] # "dead"

\* C1: at most one job submitted through enqueue has started executing and
\* not yet finished, for any number of concurrent enqueue callers.
C1_OneJobExecuting == Cardinality({r \in Requests : Executing(r)}) <= 1

\* a job is parsing while two more callers wait in the queue
C1_Witness ==
    /\ \E r \in Requests : job[r] = "parsing"
    /\ Len(queue) >= 2

\* the worker tasks that asyncio.create_task has created so far
WorkerTasks == {w \in Workers : wpc[w] # "none"}

\* C15: for any number and interleaving of concurrent enqueue calls on the
\* queue, at most one worker task is ever created, so the queue never has
\* more than one consumer.
C15_SingleWorker ==
    /\ Cardinality(WorkerTasks) <= 1
    /\ Cardinality({w \in Workers : wpc[w] \notin {"none", "dead"}}) <= 1
    /\ Len(order) >= 1 => (started /\ Cardinality(WorkerTasks) = 1)

\* every request has enqueued, the later ones while the one worker task was
\* already serving
C15_Witness ==
    /\ Len(order) = MaxRequests
    /\ Cardinality(WorkerTasks) = 1
    /\ \E r \in Requests : job[r] = "collected"
    /\ \E r \in Requests : job[r] = "none" /\ hpc[r] = "awaiting"

\* C2: if enqueue(J1) precedes enqueue(J2), J2 does not start before J1 has
\* finished, and J2's result is not delivered before J1's.
C2_FifoOrder ==
    \A i, j \in 1..Len(order) :
        i < j =>
            /\ job[order[j]] # "none" => job[order[i]] = "collected"
            /\ hpc[order[j]] = "done" => hpc[order[i]] \in {"done"} \cup {"cancelling", "cancelled"}

\* three callers served, the first and the last with a result, the second
\* with a failure
C2_Witness ==
    /\ Len(order) = 3
    /\ \A i \in 1..3 : hpc[order[i]] = "done"
    /\ fut[order[1]] = "result"
    /\ fut[order[2]] = "exception"
    /\ fut[order[3]] = "result"

\* C3: when a queued job raises, its failure goes to its own caller and to no
\* other; the worker keeps running and every job enqueued before or after is
\* still executed and its own result returned to its own caller.
C3_FailureIsolation ==
    (\E r \in Requests : outcome[r] = "raised" /\ job[r] = "collected") =>
        /\ \A q \in Requests :
               /\ fut[q] = "exception" => outcome[q] = "raised"
               /\ fut[q] = "result" => outcome[q] = "returned"
        /\ WorkerAlive
        /\ Quiescent => AllServed

\* C4: when a caller abandons its wait after its job was pushed, the job is
\* still run to completion, the worker remains alive and every job enqueued
\* afterwards is executed and its result delivered.
C4_CallerAbandonment ==
    (Abandoned # {}) =>
        /\ WorkerAlive
        /\ Quiescent => AllServed

\* C5: for any interleaving of preview, normalize and ML-profile requests no
\* two requests' workbook parsing (_load_excel, _load_sheet_frames) execute at
\* the same time.
C5_ParsingSerialized ==
    Cardinality({r \in Requests : job[r] = "parsing" \/ hpc[r] = "parsing"}) <= 1

=============================================================================
